---- MODULE Spec2Model ----
(***************************************************************************)
(* The Erc20 ink! contract of src/lib.rs as a state machine.               *)
(*                                                                         *)
(* Storage fields keep their names.  Balance is u128 in the source; here   *)
(* it is an unsigned integer of Width bits, so that the unguarded `+` and  *)
(* `-` of _transfer/_mint/_burn meet the edge of the type.  What Rust does *)
(* at that edge depends on the build (overflow-checks on: panic, off:      *)
(* two's complement wrap); overflow_checks is that build choice.           *)
(* A panic (a failed assert! too) traps the message: the host reverts      *)
(* every storage write and every event of the call.                        *)
(***************************************************************************)
EXTENDS Integers, Sequences, FiniteSets

VARIABLES _owner, _balances, _total_supply, _name, _symbol,
          events, overflow_checks, ctor, calls, last

storage == <<_owner, _balances, _total_supply, _name, _symbol>>
vars == <<_owner, _balances, _total_supply, _name, _symbol,
          events, overflow_checks, ctor, calls, last>>

\* ---- bounds ----
Width == 2
MaxEvents == 3

\* ---- types ----
AccountId == {"alice", "bob", "charlie"}
Modulus == 2 ^ Width
MaxBalance == Modulus - 1
Balance == 0 .. MaxBalance
Metadata == {<<"Polkadot", "DOT">>}
\* the amounts calls are made with: both ends of the type and the unit
Amounts == {0, 1, MaxBalance}

\* Option<T>
None == <<>>
Some(x) == <<x>>
unwrap_or(opt, default) == IF opt = None THEN default ELSE opt[1]

\* ink_storage::Mapping
EmptyMapping == [k \in {} |-> 0]
get(m, k) == IF k \in DOMAIN m THEN Some(m[k]) ELSE None
insert(m, k, v) == [x \in (DOMAIN m) \cup {k} |-> IF x = k THEN v ELSE m[x]]

\* #[ink(event)] Transferred
Transferred(from, to, value) == [from |-> from, to |-> to, value |-> value]

\* Balance arithmetic.  `a + b` and `a - b` on Balance panic when the result
\* leaves 0 .. MaxBalance and the build checks overflow, and wrap otherwise.
add_panics(a, b) == overflow_checks /\ a + b > MaxBalance
sub_panics(a, b) == overflow_checks /\ a < b
wrapping_add(a, b) == (a + b) % Modulus
wrapping_sub(a, b) == (a - b + Modulus) % Modulus

\* ---- the contract as seen by a running call ----
\* self: the storage struct, the events the call has emitted so far, and the
\* panic message once the call has trapped ("" while it runs).  seen keeps,
\* for each emitted event, the ledger as it stood when the event was emitted.
Self ==
  [_owner |-> _owner, _balances |-> _balances, _total_supply |-> _total_supply,
   _name |-> _name, _symbol |-> _symbol, emitted |-> <<>>, trapped |-> "",
   seen |-> <<>>]
panic(self, message) == [self EXCEPT !.trapped = message]
Ledger(balances, supply) == [_balances |-> balances, _total_supply |-> supply]
emit_event(self, event) ==
  [self EXCEPT !.emitted = Append(@, event),
               !.seen = Append(@, Ledger(self._balances, self._total_supply))]

\* ---- constructor ----
\* new, had it left out `contract._balances.insert(&owner, &total_supply)`
new_uncredited(caller, supply, nm, sym) ==
  LET owner == caller
      contract ==
        [_owner |-> owner,
         _balances |-> EmptyMapping,
         _total_supply |-> supply,
         _name |-> nm,
         _symbol |-> sym,
         emitted |-> <<>>,
         trapped |-> "",
         seen |-> <<>>]
  IN emit_event(contract, Transferred(None, Some(owner), supply))

new(caller, supply, nm, sym) ==
  LET owner == caller
      contract ==
        [_owner |-> owner,
         _balances |-> insert(EmptyMapping, owner, supply),
         _total_supply |-> supply,
         _name |-> nm,
         _symbol |-> sym,
         emitted |-> <<>>,
         trapped |-> "",
         seen |-> <<>>]
  IN emit_event(contract, Transferred(None, Some(owner), supply))

\* ---- read-only messages ----
name == _name
symbol == _symbol
total_supply == _total_supply
balance_of(account) == unwrap_or(get(_balances, account), 0)

\* ---- internal functions ----
\* _transfer, had it no `assert!(from_balance >= amount, ..)`
_transfer_unasserted(self, from, to, amount) ==
  LET from_balance == unwrap_or(get(self._balances, from), 0)
      to_balance == unwrap_or(get(self._balances, to), 0)
  IN IF sub_panics(from_balance, amount)
     THEN panic(self, "attempt to subtract with overflow")
     ELSE IF add_panics(to_balance, amount)
     THEN panic(self, "attempt to add with overflow")
     ELSE LET new_from_balance == wrapping_sub(from_balance, amount)
              new_to_balance == wrapping_add(to_balance, amount)
              written ==
                [self EXCEPT !._balances =
                   insert(insert(@, from, new_from_balance), to, new_to_balance)]
          IN emit_event(written, Transferred(Some(from), Some(to), amount))

\* _transfer, had its event named the recipient as `from` and the sender as `to`
_transfer_event_swapped(self, from, to, amount) ==
  LET from_balance == unwrap_or(get(self._balances, from), 0)
      to_balance == unwrap_or(get(self._balances, to), 0)
  IN IF ~(from_balance >= amount)
     THEN panic(self, "ERC20: transfer amount exceeds balance")
     ELSE IF sub_panics(from_balance, amount)
     THEN panic(self, "attempt to subtract with overflow")
     ELSE IF add_panics(to_balance, amount)
     THEN panic(self, "attempt to add with overflow")
     ELSE LET new_from_balance == wrapping_sub(from_balance, amount)
              new_to_balance == wrapping_add(to_balance, amount)
              written ==
                [self EXCEPT !._balances =
                   insert(insert(@, from, new_from_balance), to, new_to_balance)]
          IN emit_event(written, Transferred(Some(to), Some(from), amount))

\* _transfer, had it asserted `from_balance > amount`
_transfer_strict(self, from, to, amount) ==
  LET from_balance == unwrap_or(get(self._balances, from), 0)
      to_balance == unwrap_or(get(self._balances, to), 0)
  IN IF ~(from_balance > amount)
     THEN panic(self, "ERC20: transfer amount exceeds balance")
     ELSE IF sub_panics(from_balance, amount)
     THEN panic(self, "attempt to subtract with overflow")
     ELSE IF add_panics(to_balance, amount)
     THEN panic(self, "attempt to add with overflow")
     ELSE LET new_from_balance == wrapping_sub(from_balance, amount)
              new_to_balance == wrapping_add(to_balance, amount)
              written ==
                [self EXCEPT !._balances =
                   insert(insert(@, from, new_from_balance), to, new_to_balance)]
          IN emit_event(written, Transferred(Some(from), Some(to), amount))

_transfer(self, from, to, amount) ==
  LET from_balance == unwrap_or(get(self._balances, from), 0)
      to_balance == unwrap_or(get(self._balances, to), 0)
  IN IF ~(from_balance >= amount)
     THEN panic(self, "ERC20: transfer amount exceeds balance")
     ELSE IF sub_panics(from_balance, amount)
     THEN panic(self, "attempt to subtract with overflow")
     ELSE IF add_panics(to_balance, amount)
     THEN panic(self, "attempt to add with overflow")
     ELSE LET new_from_balance == wrapping_sub(from_balance, amount)
              new_to_balance == wrapping_add(to_balance, amount)
              written ==
                [self EXCEPT !._balances =
                   insert(insert(@, from, new_from_balance), to, new_to_balance)]
          IN emit_event(written, Transferred(Some(from), Some(to), amount))

\* _mint, had it left out `self._total_supply += amount`
_mint_unsupplied(self, account, amount) ==
  LET account_balance == unwrap_or(get(self._balances, account), 0)
  IN IF add_panics(account_balance, amount)
     THEN panic(self, "attempt to add with overflow")
     ELSE emit_event(
            [self EXCEPT !._balances =
               insert(@, account, wrapping_add(account_balance, amount))],
            Transferred(None, Some(account), amount))

\* _mint, had it emitted the event before `self._balances.insert(..)`
_mint_emit_first(self, account, amount) ==
  IF add_panics(self._total_supply, amount)
  THEN panic(self, "attempt to add with overflow")
  ELSE LET supplied ==
             [self EXCEPT !._total_supply = wrapping_add(@, amount)]
           account_balance == unwrap_or(get(supplied._balances, account), 0)
       IN IF add_panics(account_balance, amount)
          THEN panic(supplied, "attempt to add with overflow")
          ELSE [emit_event(supplied, Transferred(None, Some(account), amount))
                  EXCEPT !._balances =
                    insert(@, account, wrapping_add(account_balance, amount))]

_mint(self, account, amount) ==
  IF add_panics(self._total_supply, amount)
  THEN panic(self, "attempt to add with overflow")
  ELSE LET supplied ==
             [self EXCEPT !._total_supply = wrapping_add(@, amount)]
           account_balance == unwrap_or(get(supplied._balances, account), 0)
       IN IF add_panics(account_balance, amount)
          THEN panic(supplied, "attempt to add with overflow")
          ELSE emit_event(
                 [supplied EXCEPT !._balances =
                    insert(@, account, wrapping_add(account_balance, amount))],
                 Transferred(None, Some(account), amount))

\* _burn, had it no `assert!(balance >= amount, ..)`
_burn_unasserted(self, account, amount) ==
  LET balance == unwrap_or(get(self._balances, account), 0)
  IN IF sub_panics(self._total_supply, amount)
     THEN panic(self, "attempt to subtract with overflow")
     ELSE IF sub_panics(balance, amount)
     THEN panic(self, "attempt to subtract with overflow")
     ELSE LET written ==
                [self EXCEPT !._total_supply = wrapping_sub(@, amount),
                             !._balances =
                               insert(@, account, wrapping_sub(balance, amount))]
          IN emit_event(written, Transferred(Some(account), None, amount))

_burn(self, account, amount) ==
  LET balance == unwrap_or(get(self._balances, account), 0)
  IN IF ~(balance >= amount)
     THEN panic(self, "ERC20: burn amount exceeds balance")
     ELSE IF sub_panics(self._total_supply, amount)
     THEN panic(self, "attempt to subtract with overflow")
     ELSE IF sub_panics(balance, amount)
     THEN panic(self, "attempt to subtract with overflow")
     ELSE LET written ==
                [self EXCEPT !._total_supply = wrapping_sub(@, amount),
                             !._balances =
                               insert(@, account, wrapping_sub(balance, amount))]
          IN emit_event(written, Transferred(Some(account), None, amount))

\* only_allowed_caller, had it asserted nothing
only_allowed_caller_anyone(self, caller) == self

only_allowed_caller(self, caller) ==
  IF self._owner = caller
  THEN self
  ELSE panic(self, "only_allowed_caller: this caller is not allowed")

\* ---- the host: one message call, committed or reverted as a whole ----
\* A call that returns commits its storage and its events; a call that traps
\* leaves both as they were.  calls lists the calls that returned, in order;
\* last is the latest call with what came of it.
dispatch(call, self) ==
  /\ UNCHANGED <<overflow_checks, ctor>>
  /\ IF self.trapped = ""
     THEN /\ _owner' = self._owner
          /\ _balances' = self._balances
          /\ _total_supply' = self._total_supply
          /\ _name' = self._name
          /\ _symbol' = self._symbol
          /\ events' = events \o self.emitted
          /\ calls' = Append(calls, call)
          /\ last' = [call EXCEPT !.result = "true"]
     ELSE /\ UNCHANGED <<storage, events, calls>>
          /\ last' = [call EXCEPT !.result = self.trapped]

Call(op, caller, to, amount) ==
  [op |-> op, caller |-> caller, to |-> to, amount |-> amount, result |-> ""]

\* ---- messages ----
transfer(caller, to, amount) ==
  LET owner == caller
  IN dispatch(Call("transfer", caller, Some(to), amount),
              _transfer(Self, owner, to, amount))

mint(caller, amount) ==
  LET owner == caller
      allowed == only_allowed_caller(Self, caller)
  IN dispatch(Call("mint", caller, None, amount),
              IF allowed.trapped = "" THEN _mint(allowed, owner, amount)
                                      ELSE allowed)

burn(caller, amount) ==
  LET owner == caller
      allowed == only_allowed_caller(Self, caller)
  IN dispatch(Call("burn", caller, None, amount),
              IF allowed.trapped = "" THEN _burn(allowed, owner, amount)
                                      ELSE allowed)

\* ---- specification ----
\* The log is unbounded in the program; a run here ends once it holds `limit`
\* events.
LogHoldsFewerThan(limit) == Len(events) < limit

Constructed(caller, supply, nm, sym) ==
  LET contract == new(caller, supply, nm, sym)
  IN /\ _owner = contract._owner
     /\ _balances = contract._balances
     /\ _total_supply = contract._total_supply
     /\ _name = contract._name
     /\ _symbol = contract._symbol
     /\ events = contract.emitted
     /\ ctor = [caller |-> caller, total_supply |-> supply,
                name |-> nm, symbol |-> sym]
     /\ calls = <<>>
     /\ last = [Call("new", caller, None, supply) EXCEPT !.result = "Self"]

Init ==
  /\ overflow_checks \in BOOLEAN
  /\ \E caller \in AccountId, supply \in Amounts, meta \in Metadata :
       Constructed(caller, supply, meta[1], meta[2])

Next ==
  \/ \E caller \in AccountId, to \in AccountId, amount \in Amounts :
       LogHoldsFewerThan(MaxEvents) /\ transfer(caller, to, amount)
  \/ \E caller \in AccountId, amount \in Amounts :
       LogHoldsFewerThan(MaxEvents) /\ mint(caller, amount)
  \/ \E caller \in AccountId, amount \in Amounts :
       LogHoldsFewerThan(MaxEvents) /\ burn(caller, amount)

Spec == Init /\ [][Next]_vars

\* A longer run of one deployment: alice creates the token with the largest
\* supply the type holds.
MaxEventsDeep == 4

InitDeep ==
  /\ overflow_checks \in BOOLEAN
  /\ Constructed("alice", MaxBalance, "Polkadot", "DOT")

NextDeep ==
  \/ \E caller \in AccountId, to \in AccountId, amount \in Amounts :
       LogHoldsFewerThan(MaxEventsDeep) /\ transfer(caller, to, amount)
  \/ \E caller \in AccountId, amount \in Amounts :
       LogHoldsFewerThan(MaxEventsDeep) /\ mint(caller, amount)
  \/ \E caller \in AccountId, amount \in Amounts :
       LogHoldsFewerThan(MaxEventsDeep) /\ burn(caller, amount)

SpecDeep == InitDeep /\ [][NextDeep]_vars

\* ---- vocabulary of the properties ----
NotAllowed == "only_allowed_caller: this caller is not allowed"
TransferExceeds == "ERC20: transfer amount exceeds balance"
BurnExceeds == "ERC20: burn amount exceeds balance"

\* balance_of(account) once the step is taken
balance_after(account) == unwrap_or(get(_balances', account), 0)

RECURSIVE SumOfBalances(_)
SumOfBalances(accounts) ==
  IF accounts = {} THEN 0
  ELSE LET a == CHOOSE x \in accounts : TRUE
       IN balance_of(a) + SumOfBalances(accounts \ {a})

\* the event a returned call must have left in the log
EventOf(call) ==
  CASE call.op = "transfer" ->
         [from |-> Some(call.caller), to |-> call.to, value |-> call.amount]
    [] call.op = "mint" ->
         [from |-> None, to |-> Some(call.caller), value |-> call.amount]
    [] call.op = "burn" ->
         [from |-> Some(call.caller), to |-> None, value |-> call.amount]

\* the step is a call that trapped with `message` and changed nothing
AbortsUnchanged(message) ==
  /\ last'.result = message
  /\ UNCHANGED <<_owner, _balances, _total_supply, _name, _symbol, events>>
  /\ \A a \in AccountId : balance_after(a) = balance_of(a)

\* every account but those of `touched` keeps its balance over the step
OthersKeep(touched) ==
  \A a \in AccountId \ touched : balance_after(a) = balance_of(a)

\* ---- C1 ----
\* C1: in every reachable state total_supply() equals the sum of
\* balance_of(a) over all accounts a.
C1_SupplyIsSumOfBalances == total_supply = SumOfBalances(AccountId)

\* ---- C2 ----
\* C2: a transfer(to = c, amount) made by c with amount <= balance_of(c)
\* returns true, leaves balance_of(c) as it was, and appends the event
\* {from: Some(c), to: Some(c), value: amount}.
C2_SelfTransferKeepsBalance ==
  [][LET c == last'.caller
         amount == last'.amount
     IN (/\ last'.op = "transfer"
         /\ last'.to = Some(c)
         /\ amount <= balance_of(c))
        => (/\ last'.result = "true"
            /\ balance_after(c) = balance_of(c)
            /\ events' = Append(events,
                  [from |-> Some(c), to |-> Some(c), value |-> amount]))
    ]_vars

\* ---- C3 ----
\* C3: a mint or burn called by an account other than the owner, with any
\* amount and any balance, traps as not allowed and leaves every balance,
\* total_supply, the owner and the event log as they were.
C3_UnauthorizedAborts ==
  [][(last'.op \in {"mint", "burn"} /\ last'.caller # _owner)
     => AbortsUnchanged(NotAllowed)]_vars

\* a non-owner that holds enough to burn what it asked for was refused
C3_Witness ==
  /\ last.op = "burn"
  /\ last.caller # _owner
  /\ last.amount > 0
  /\ balance_of(last.caller) >= last.amount
  /\ last.result = NotAllowed

\* ---- C4 ----
\* C4: a transfer of more than the caller's balance traps (transfer amount
\* exceeds balance) and leaves every balance, total_supply and the event log
\* as they were.
C4_FailedTransferAtomic ==
  [][(last'.op = "transfer" /\ balance_of(last'.caller) < last'.amount)
     => AbortsUnchanged(TransferExceeds)]_vars

\* a sender with a balance asked to send more than it to a holder
C4_Witness ==
  /\ last.op = "transfer"
  /\ last.result = TransferExceeds
  /\ last.to # Some(last.caller)
  /\ balance_of(last.caller) > 0
  /\ balance_of(last.to[1]) > 0

\* ---- C5 ----
\* C5: a transfer(t, amount) by c with t # c and amount <= balance_of(c)
\* returns true, takes exactly amount from balance_of(c), adds exactly amount
\* to balance_of(t) and leaves every other balance as it was.
C5_TransferMovesAmount ==
  [][LET c == last'.caller
         amount == last'.amount
     IN (/\ last'.op = "transfer"
         /\ last'.to # Some(c)
         /\ amount <= balance_of(c))
        => LET t == last'.to[1]
           IN /\ last'.result = "true"
              /\ balance_after(c) = balance_of(c) - amount
              /\ balance_after(t) = balance_of(t) + amount
              /\ OthersKeep({c, t})
    ]_vars

\* ---- C6 ----
\* the effect C6 gives the mint call of the step
MintEffect ==
  LET c == last'.caller
      amount == last'.amount
  IN /\ last'.result = "true"
     /\ total_supply' = total_supply + amount
     /\ balance_after(c) = balance_of(c) + amount
     /\ OthersKeep({c})

\* C6 as stated: every mint(amount) called by the owner returns true, adds
\* exactly amount to total_supply and to the caller's balance, and changes
\* no other balance.
C6_MintAlwaysAdds ==
  [][(last'.op = "mint" /\ last'.caller = _owner) => MintEffect]_vars

\* C6 as amended: a mint(amount) called by the owner for which neither
\* total_supply + amount nor the owner's balance + amount exceeds the largest
\* Balance returns true, adds exactly amount to total_supply and to the
\* caller's balance, and changes no other balance; and no mint call, whatever
\* its outcome, changes the balance of an account other than its caller.
C6_MintAddsWithinRange ==
  [][last'.op = "mint"
     => /\ OthersKeep({last'.caller})
        /\ (/\ last'.caller = _owner
            /\ total_supply + last'.amount <= MaxBalance
            /\ balance_of(_owner) + last'.amount <= MaxBalance)
           => MintEffect
    ]_vars

\* the owner minted a positive amount while another account held tokens
C6_Witness ==
  /\ last.op = "mint"
  /\ last.result = "true"
  /\ last.amount > 0
  /\ \E a \in AccountId \ {last.caller} : balance_of(a) > 0

\* ---- C7 ----
\* C7: a burn(amount) called by the owner with amount <= balance_of(owner)
\* returns true, takes exactly amount from total_supply and from the owner's
\* balance, and changes no other balance.
C7_BurnTakesAmount ==
  [][(/\ last'.op = "burn"
      /\ last'.caller = _owner
      /\ last'.amount <= balance_of(_owner))
     => (/\ last'.result = "true"
         /\ total_supply' = total_supply - last'.amount
         /\ balance_after(_owner) = balance_of(_owner) - last'.amount
         /\ OthersKeep({_owner}))
    ]_vars

\* ---- C8 ----
\* C8: a burn(amount) called by the owner with amount > balance_of(owner)
\* traps (burn amount exceeds balance) and leaves total_supply, every balance
\* and the event log as they were.
C8_FailedBurnAtomic ==
  [][(/\ last'.op = "burn"
      /\ last'.caller = _owner
      /\ last'.amount > balance_of(_owner))
     => AbortsUnchanged(BurnExceeds)]_vars

\* the owner, still holding tokens, asked to burn more than it holds
C8_Witness ==
  /\ last.op = "burn"
  /\ last.caller = _owner
  /\ last.result = BurnExceeds
  /\ balance_of(_owner) > 0
  /\ Len(events) > 1

\* ---- C9 ----
\* C9: the event log only grows by appending; its length is 1 plus the number
\* of calls that returned; the event after the constructor's k-th follower is
\* the one of the k-th returned call (transfer: {Some(c), Some(t), v}, mint:
\* {None, Some(c), v}, burn: {Some(c), None, v}); a call that traps appends
\* nothing and a call that returns appends exactly one event.
C9_EventCorrespondence ==
  /\ [](/\ Len(events) = 1 + Len(calls)
        /\ \A k \in 1 .. Len(calls) : events[k + 1] = EventOf(calls[k]))
  /\ [][/\ last'.result = "true" => events' = Append(events, EventOf(last'))
        /\ last'.result # "true" => events' = events]_vars

\* a transfer has returned and the burn called after it has trapped: the log
\* holds the constructor's event and the transfer's
C9_Witness ==
  /\ Len(calls) = 1
  /\ calls[1].op = "transfer"
  /\ calls[1].amount > 0
  /\ last.op = "burn"
  /\ last.result = BurnExceeds
  /\ Len(events) = 2

\* ---- C10 ----
\* C10: right after new(s, name, symbol) called by A: total_supply() = s,
\* balance_of(A) = s, balance_of(x) = 0 for every other x, the owner is A,
\* name() and symbol() are the given strings, and the log holds the one event
\* {from: None, to: Some(A), value: s}.
C10_Constructor ==
  last.op = "new" =>
    /\ total_supply = ctor.total_supply
    /\ balance_of(ctor.caller) = ctor.total_supply
    /\ \A x \in AccountId \ {ctor.caller} : balance_of(x) = 0
    /\ _owner = ctor.caller
    /\ name = ctor.name
    /\ symbol = ctor.symbol
    /\ events = <<[from |-> None, to |-> Some(ctor.caller),
                   value |-> ctor.total_supply]>>

\* a token created with supply 0
C10_Witness == last.op = "new" /\ ctor.total_supply = 0 /\ last.amount = 0

\* ---- C11 ----
\* the sum of balance_of over `accounts` once the step is taken
RECURSIVE SumOfBalancesAfter(_)
SumOfBalancesAfter(accounts) ==
  IF accounts = {} THEN 0
  ELSE LET a == CHOOSE x \in accounts : TRUE
       IN balance_after(a) + SumOfBalancesAfter(accounts \ {a})

\* the step is a mint or a burn that returned
MintOrBurnReturns == last'.op \in {"mint", "burn"} /\ last'.result = "true"

\* C11: a step that is not a returned mint or burn (any transfer, returned or
\* trapped, by any caller to any recipient, and any trapped call) leaves the
\* sum of all balances as it was.
C11_SumKeptOutsideMintBurn ==
  [][~MintOrBurnReturns
     => SumOfBalancesAfter(AccountId) = SumOfBalances(AccountId)]_vars

\* ---- C12 ----
\* C12: a transfer, returned or trapped, leaves total_supply() as it was;
\* total_supply() changes only in a mint that returns, by exactly +amount, or
\* in a burn that returns, by exactly -amount.
C12_SupplyMovesByAmount ==
  [][/\ last'.op = "transfer" => total_supply' = total_supply
     /\ total_supply' # total_supply
        => \/ /\ last'.op = "mint"
              /\ last'.result = "true"
              /\ total_supply' = total_supply + last'.amount
           \/ /\ last'.op = "burn"
              /\ last'.result = "true"
              /\ total_supply' = total_supply - last'.amount
    ]_vars

\* ---- C13 ----
\* a mint or a burn called by `account` now, with some amount, would return
MintOrBurnCanReturn(account) ==
  LET allowed == only_allowed_caller(Self, account)
  IN /\ allowed.trapped = ""
     /\ \E amount \in Amounts :
          \/ _mint(allowed, account, amount).trapped = ""
          \/ _burn(allowed, account, amount).trapped = ""

\* C13: in every reachable state the owner is the account that called new, and
\* name and symbol are the strings given to new; no call, returned or trapped,
\* changes any of the three; the accounts whose mint or burn can return are
\* exactly {creator}, and every mint or burn that returned was the creator's.
C13_OwnerFixed ==
  /\ [](/\ _owner = ctor.caller
        /\ name = ctor.name
        /\ symbol = ctor.symbol
        /\ {a \in AccountId : MintOrBurnCanReturn(a)} = {ctor.caller})
  /\ [][/\ UNCHANGED <<_owner, _name, _symbol>>
        /\ MintOrBurnReturns => last'.caller = ctor.caller]_vars

\* the creator has given tokens to another account, and that account, now the
\* larger holder, was refused a burn it had the balance for
C13_Witness ==
  /\ Len(calls) = 1
  /\ calls[1].op = "transfer"
  /\ calls[1].caller = ctor.caller
  /\ last.op = "burn"
  /\ last.caller # ctor.caller
  /\ last.result = NotAllowed
  /\ last.amount > 0
  /\ balance_of(last.caller) >= last.amount
  /\ balance_of(last.caller) > balance_of(ctor.caller)

\* ---- C14 ----
SubtractOverflow == "attempt to subtract with overflow"

\* C14: balance_of(a) >= 0 for every account in every reachable state; a
\* transfer or burn that returns debits an amount that is at most the caller's
\* balance at the start of the call; no transfer traps on a subtraction, and a
\* burn that traps on one had the balance for its amount (the subtraction
\* that failed is not the balance's).
C14_NoBalanceUnderflow ==
  /\ [](\A a \in AccountId : balance_of(a) >= 0)
  /\ [][/\ (last'.op \in {"transfer", "burn"} /\ last'.result = "true")
           => last'.amount <= balance_of(last'.caller)
        /\ last'.op = "transfer" => last'.result # SubtractOverflow
        /\ (last'.op = "burn" /\ last'.result = SubtractOverflow)
           => last'.amount <= balance_of(last'.caller)
       ]_vars

\* an account has sent its whole positive balance to another account
C14_Witness ==
  /\ last.op = "transfer"
  /\ last.result = "true"
  /\ last.amount > 0
  /\ last.to # Some(last.caller)
  /\ balance_of(last.caller) = 0

\* ---- C15 ----
\* C15: transfer(to, 0), called by any account to any recipient, returns true,
\* leaves every balance and total_supply as they were, and appends the event
\* {from: Some(caller), to: Some(to), value: 0}.
C15_ZeroTransfer ==
  [][(last'.op = "transfer" /\ last'.amount = 0)
     => /\ last'.result = "true"
        /\ \A a \in AccountId : balance_after(a) = balance_of(a)
        /\ total_supply' = total_supply
        /\ events' = Append(events,
              [from |-> Some(last'.caller), to |-> last'.to, value |-> 0])
    ]_vars

\* an account that is not the owner and had never held a balance has sent 0
\* to a holder
C15_Witness ==
  /\ Len(calls) = 1
  /\ last.op = "transfer"
  /\ last.amount = 0
  /\ last.result = "true"
  /\ last.caller # _owner
  /\ last.to # Some(last.caller)
  /\ balance_of(last.caller) = 0
  /\ balance_of(last.to[1]) > 0

\* ---- C16 ----
\* C16: a mint(amount) called by the owner for which total_supply + amount or
\* the owner's balance + amount exceeds the largest Balance traps and leaves
\* total_supply, every balance and the event log as they were.
C16_MintOverflowAborts ==
  [][(/\ last'.op = "mint"
      /\ last'.caller = _owner
      /\ \/ total_supply + last'.amount > MaxBalance
         \/ balance_of(_owner) + last'.amount > MaxBalance)
     => /\ last'.result # "true"
        /\ UNCHANGED <<_owner, _balances, _total_supply, _name, _symbol, events>>
    ]_vars

\* ---- C17 ----
\* what the message `call` does when run on the present storage
Outcome(call) ==
  CASE call.op = "transfer" ->
         _transfer(Self, call.caller, call.to[1], call.amount)
    [] call.op = "mint" ->
         LET allowed == only_allowed_caller(Self, call.caller)
         IN IF allowed.trapped = "" THEN _mint(allowed, call.caller, call.amount)
                                    ELSE allowed
    [] call.op = "burn" ->
         LET allowed == only_allowed_caller(Self, call.caller)
         IN IF allowed.trapped = "" THEN _burn(allowed, call.caller, call.amount)
                                    ELSE allowed

\* C17: in new, transfer, mint and burn the event is emitted after every
\* storage write of the call: the balances and total_supply that stood when
\* the one event was emitted are those the call leaves; the events of a call
\* go to the end of the log, so the log is in the order the calls completed.
C17_EventAfterWrites ==
  /\ [](last.op = "new"
        => LET contract ==
                 new(ctor.caller, ctor.total_supply, ctor.name, ctor.symbol)
           IN /\ contract.seen = <<Ledger(_balances, _total_supply)>>
              /\ events = contract.emitted)
  /\ [][last'.result = "true"
        => LET out == Outcome(last')
           IN /\ out.seen = <<Ledger(_balances', _total_supply')>>
              /\ Len(out.emitted) = 1
              /\ events' = events \o out.emitted
              /\ calls' = Append(calls, [last' EXCEPT !.result = ""])
       ]_vars

\* a mint, which writes total_supply and a balance before its event, has
\* returned after a transfer
C17_Witness ==
  /\ Len(calls) = 2
  /\ calls[1].op = "transfer"
  /\ calls[1].amount > 0
  /\ last.op = "mint"
  /\ last.result = "true"
  /\ last.amount > 0
  /\ Len(events) = 3

\* ---- C18 ----
\* C18: in every reachable state every balance is at most total_supply, so a
\* burn never traps on `total_supply -= amount`, and a burn that returns
\* leaves total_supply - amount, not a wrapped value.
C18_BalanceWithinSupply ==
  /\ [](\A a \in AccountId : balance_of(a) <= total_supply)
  /\ [][last'.op = "burn"
        => /\ last'.result # SubtractOverflow
           /\ last'.result = "true"
              => total_supply' = total_supply - last'.amount
       ]_vars

\* ---- C19 ----
\* the sum of value over the events of `log` whose `field` is `who`
RECURSIVE SumOfEvents(_, _, _)
SumOfEvents(log, field, who) ==
  IF log = <<>> THEN 0
  ELSE (IF Head(log)[field] = who THEN Head(log).value ELSE 0)
       + SumOfEvents(Tail(log), field, who)

\* C19: in every reachable state, balance_of(a) is the sum of value over the
\* logged events with to == Some(a) minus the sum over those with
\* from == Some(a), for every account a, and total_supply() is the sum over
\* the events with from == None minus the sum over those with to == None.
C19_LedgerFromLog ==
  /\ \A a \in AccountId :
       balance_of(a) = SumOfEvents(events, "to", Some(a))
                       - SumOfEvents(events, "from", Some(a))
  /\ total_supply = SumOfEvents(events, "from", None)
                    - SumOfEvents(events, "to", None)

\* ---- C20 ----
\* no mint has returned so far
NoMintSoFar == \A k \in 1 .. Len(calls) : calls[k].op # "mint"

\* C20: as long as only transfers and burns have run, the credit
\* to_balance + amount that a transfer computes (one whose amount the
\* caller's balance covers, to == caller included) is at most the largest
\* Balance.
C20_TransferCreditInRange ==
  [][(/\ last'.op = "transfer"
      /\ NoMintSoFar
      /\ last'.amount <= balance_of(last'.caller))
     => balance_of(last'.to[1]) + last'.amount <= MaxBalance]_vars

====
